---- MODULE Spec2Model ----
(***************************************************************************)
(* The GTP front end of minigo (cc/gtp_client.cc): GtpClient::Run with its  *)
(* detached stdin reader thread, the thread-safe stdin_queue_, the command  *)
(* interpreter HandleCmd / DispatchCmd with the handlers, and the ponder    *)
(* scheduler (MaybeStartPondering / MaybePonder / Ponder).                  *)
(*                                                                         *)
(* A line is the sequence of its whitespace-separated tokens.  The session  *)
(* (MctsPlayer + Game) lives outside gtp_client.cc; it is modelled by the   *)
(* move history on a board of the points in Points, without captures.       *)
(***************************************************************************)
EXTENDS Integers, Sequences, FiniteSets, TLC

\* ------------------------------------------------------------------ bounds
\* Number of lines the input stream delivers before it is closed.
MaxLines == 2
\* Number of commands a session dispatches (SessionSpec).
MaxCommands == 4
\* Largest value of the clock absl::Now() (in seconds).
MaxTime == 2
\* Largest number of reads one TreeSearch increment adds at the root.
MaxIncrement == 2
\* Cap of ponder_read_count_ (an int in the code).
MaxReadCount == 3

\* ------------------------------------------------------------ vocabulary
\* The points of the board; "pass" is always a coordinate too.
Points == {"A1"}

\* absl::SimpleAtoi on the tokens used: the integer a token denotes.
IntTokens == [t \in {"0", "1", "2", "7", "19"} |->
                 CASE t = "0" -> 0 [] t = "1" -> 1 [] t = "2" -> 2 [] t = "7" -> 7
                   [] t = "19" -> 19]

SimpleAtoi(tok) == tok \in DOMAIN IntTokens

\* absl::SimpleAtof accepts the integer tokens as numbers too.
SimpleAtof(tok) == tok \in DOMAIN IntTokens

\* The files loadsgf can name: the main line of the game record each holds.
\* A name outside the domain cannot be read.
SgfFiles == [f \in {"ok.sgf", "bad.sgf"} |->
                IF f = "ok.sgf" THEN <<"A1", "pass">> ELSE <<"A1", "A1">>]

\* The lines the input stream delivers in Spec, the model of Run with its
\* reader thread: one line for each way an iteration of the loop can go.
RunLines == { <<>>,
              <<"quit">>,
              <<"genmove">>,
              <<"ponder", "reads", "2">>,
              <<"ponder", "time", "1">> }

\* The lines the input stream delivers in FairSpec, the model of Run with a
\* main thread that keeps running.
PonderLines == { <<"genmove">>,
                 <<"ponder", "reads", "2">> }

\* The lines the input stream delivers in ReturnSpec, the model of Run with a
\* main thread that keeps running, in each of the three ponder modes.
ReturnLines == { <<"genmove">>,
                 <<"ponder", "time", "1">> }

\* The lines a session dispatches in SessionSpec, the model of the main
\* thread alone.
Lines == RunLines \cup
         { <<"clear_board">>,
           <<"play", "b", "A1">>,
           <<"play", "w", "pass">>,
           <<"undo">>,
           <<"loadsgf", "bad.sgf">>,
           <<"loadsgf", "ok.sgf">>,
           <<"ponder", "off">>,
           <<"ponder", "reads", "0">>,
           <<"frobnicate">> }

\* The lines a session dispatches in ProtocolSpec, the model of the command
\* interpreter: lines with and without an id, names in and out of the
\* registry, and argument lists the handlers accept and refuse.
ProtocolLines == { <<>>,
                   <<"quit">>,
                   <<"undo">>,
                   <<"frobnicate">>,
                   <<"7", "quit">>,
                   <<"7", "undo">>,
                   <<"7", "frobnicate">>,
                   <<"7">>,
                   <<"play", "b", "A1">>,
                   <<"play", "b", "pass">>,
                   <<"play", "w", "pass">>,
                   <<"ponder", "bogus">>,
                   <<"ponder", "bogus", "2">>,
                   <<"known_command", "play">>,
                   <<"known_command", "quit">>,
                   <<"benchmark">>,
                   <<"benchmark", "2", "2">>,
                   <<"benchmark", "2", "x">>,
                   <<"benchmark", "2", "2", "2">>,
                   <<"readouts", "2">> }

\* ponder_limit values the client options can carry at construction.
InitialPonderLimits == {0, 2}

\* courtesy_pass values the client options can carry at construction: the
\* flag's default in Run with its reader thread, both values in a session.
CourtesyPassOptions == {FALSE}

SessionCourtesyPassOptions == {FALSE, TRUE}

\* What the read of args[0] in HandleCmd can do when the token list is empty
\* (the line held an id and nothing else): the process aborts (a checked
\* operator[], or the erase of begin() of an empty vector), or the read finds
\* the storage of the erased id token.
UndefinedOutcomes == {"abort", "stale"}

\* The outcomes of the read on a line: defined ("none") unless the line holds
\* an id and nothing else.
UndefinedOutcomesOf(line) ==
    IF line # <<>> /\ Len(line) = 1 /\ line[1] \in DOMAIN IntTokens
    THEN UndefinedOutcomes ELSE {"none"}

\* absl::InfinitePast(): earlier than every clock value.
InfinitePast == -1

\* ------------------------------------------------------------- responses
ResponseOk(str) == [ok |-> TRUE, done |-> FALSE, str |-> str, cmd_id |-> <<>>]

ResponseError(str) == [ok |-> FALSE, done |-> FALSE, str |-> str, cmd_id |-> <<>>]

ResponseDone == [ok |-> TRUE, done |-> TRUE, str |-> <<>>, cmd_id |-> <<>>]

\* --------------------------------------------------------------- session
\* The session is the sequence of moves played since NewGame.
Last(s) == s[Len(s)]

Front(s) == SubSeq(s, 1, Len(s) - 1)

Tail2(s) == SubSeq(s, 2, Len(s))

\* root()->game_over(): two consecutive passes ended the game.
GameOver(h) == Len(h) >= 2 /\ h[Len(h)] = "pass" /\ h[Len(h) - 1] = "pass"

\* root()->position.to_play(): black moves first, colours alternate.
ToPlay(h) == IF Len(h) % 2 = 0 THEN "b" ELSE "w"

Occupied(h) == {h[i] : i \in 1..Len(h)} \ {"pass"}

\* Position::legal_move: a pass, or a stone on an empty point.
LegalMove(h, c) == c = "pass" \/ (c \in Points /\ c \notin Occupied(h))

\* MctsPlayer::PlayMove: whether the move is accepted.
CanPlayMove(h, c) == ~GameOver(h) /\ LegalMove(h, c)

\* Coord::FromGtp(str, true): the coordinate, or "invalid".
CoordFromGtp(tok) == IF tok = "pass" \/ tok \in Points THEN tok ELSE "invalid"

\* The moves SuggestMove can return in a position.
SuggestedMoves(h) == {c \in Points \cup {"pass"} : LegalMove(h, c)}

\* The names RegisterCmd enters into cmd_handlers_, in the constructor's order.
RegisteredNames == << "benchmark", "boardsize", "clear_board", "final_score",
                      "genmove", "known_command", "komi", "list_commands",
                      "loadsgf", "name", "play", "ponder", "readouts",
                      "showboard", "undo" >>

\* ------------------------------------------------------- the client state
\* The members of GtpClient the main thread owns.  history is the session;
\* ponder_limit is options_.ponder_limit, courtesy_pass options_.courtesy_pass,
\* player_options the MctsPlayer's options and cmd_handlers_ the keys of the
\* handler map.
MakeClient(limit, courtesy) ==
    [ history               |-> <<>>,
      cmd_handlers_         |-> {RegisteredNames[i] : i \in 1..Len(RegisteredNames)},
      ponder_type_          |-> IF limit > 0 THEN "kReadLimited" ELSE "kOff",
      ponder_read_count_    |-> 0,
      ponder_limit          |-> limit,
      ponder_duration_      |-> 0,
      ponder_time_limit_    |-> InfinitePast,
      ponder_limit_reached_ |-> FALSE,
      courtesy_pass         |-> courtesy,
      player_options        |-> [num_readouts |-> 1, virtual_losses |-> 1,
                                 seconds_per_move |-> 1] ]

\* What a handler returns: the Response and the client state it leaves.
Result(r, cl) == [response |-> r, client |-> cl]

\* MaybeStartPondering that leaves the deadline of the last arming.
MaybeStartPonderingStaleDeadline(cl, now) ==
    IF cl.ponder_type_ # "kOff"
    THEN [cl EXCEPT !.ponder_limit_reached_ = FALSE,
                    !.ponder_read_count_ = 0]
    ELSE cl

MaybeStartPondering(cl, now) ==
    IF cl.ponder_type_ # "kOff"
    THEN [cl EXCEPT !.ponder_limit_reached_ = FALSE,
                    !.ponder_read_count_ = 0,
                    !.ponder_time_limit_ =
                        IF cl.ponder_type_ = "kTimeLimited"
                        THEN now + cl.ponder_duration_ ELSE @]
    ELSE cl

\* NewGame that resets the session and leaves the ponder state alone.
NewGameSessionOnly(cl, now) == [cl EXCEPT !.history = <<>>]

NewGame(cl, now) == MaybeStartPondering([cl EXCEPT !.history = <<>>], now)

\* MaybePonderBranch with > for >= in the test of the read count.
MaybePonderBranchOffByOne(cl, now) ==
    IF GameOver(cl.history) \/ cl.ponder_type_ = "kOff" \/ cl.ponder_limit_reached_
    THEN "idle"
    ELSE IF \/ (cl.ponder_type_ = "kReadLimited"
                  /\ cl.ponder_read_count_ > cl.ponder_limit)
            \/ (cl.ponder_type_ = "kTimeLimited" /\ now >= cl.ponder_time_limit_)
         THEN "limit"
         ELSE "ponder"

\* MaybePonderBranch without the test of kOff.
MaybePonderBranchNoOff(cl, now) ==
    IF GameOver(cl.history) \/ cl.ponder_limit_reached_
    THEN "idle"
    ELSE IF \/ (cl.ponder_type_ = "kReadLimited"
                  /\ cl.ponder_read_count_ >= cl.ponder_limit)
            \/ (cl.ponder_type_ = "kTimeLimited" /\ now >= cl.ponder_time_limit_)
         THEN "limit"
         ELSE "ponder"

\* MaybePonder's outcome: "idle" (first return false), "limit" (the budget is
\* used up: set ponder_limit_reached_, return false) or "ponder".
MaybePonderBranch(cl, now) ==
    IF GameOver(cl.history) \/ cl.ponder_type_ = "kOff" \/ cl.ponder_limit_reached_
    THEN "idle"
    ELSE IF \/ (cl.ponder_type_ = "kReadLimited"
                  /\ cl.ponder_read_count_ >= cl.ponder_limit)
            \/ (cl.ponder_type_ = "kTimeLimited" /\ now >= cl.ponder_time_limit_)
         THEN "limit"
         ELSE "ponder"

\* Ponder that does not add the reads to ponder_read_count_.
PonderUncounted(cl, reads) == cl

\* Ponder: one TreeSearch that adds reads to the root's N.
Ponder(cl, reads) == [cl EXCEPT !.ponder_read_count_ = @ + reads]

\* MaybePonder: the value returned and the client state left.
MaybePonder(cl, now, reads) ==
    CASE MaybePonderBranch(cl, now) = "idle" -> [ret |-> FALSE, client |-> cl]
      [] MaybePonderBranch(cl, now) = "limit" ->
            [ret |-> FALSE, client |-> [cl EXCEPT !.ponder_limit_reached_ = TRUE]]
      [] OTHER -> [ret |-> TRUE, client |-> Ponder(cl, reads)]

\* ReplaySgf on the main line of trees[0]: plays the moves until one is
\* refused.
RECURSIVE ReplaySgf(_, _)
ReplaySgf(cl, moves) ==
    IF moves = <<>> THEN Result(ResponseOk(<<>>), cl)
    ELSE IF ~CanPlayMove(cl.history, Head(moves))
         THEN Result(ResponseError(<<"Cannot load file">>), cl)
         ELSE ReplaySgf([cl EXCEPT !.history = Append(@, Head(moves))], Tail(moves))

\* ---------------------------------------------------------------- handlers
CheckArgsExact(n, args) ==
    IF Len(args) # n
    THEN ResponseError(<<"expected ", ToString(n), " args, got ",
                         ToString(Len(args)), " args: ">> \o args)
    ELSE ResponseOk(<<>>)

CheckArgsRange(lo, hi, args) ==
    IF Len(args) < lo \/ Len(args) > hi
    THEN ResponseError(<<"expected between ", ToString(lo), " and ", ToString(hi),
                         " args, got ", ToString(Len(args)), " args: ">> \o args)
    ELSE ResponseOk(<<>>)

\* cmd_handlers_.find(cmd) != cmd_handlers_.end()
IsRegistered(cl, cmd) == cmd \in cl.cmd_handlers_

\* The board size compiled in (cc/constants.h).
kN == 19

\* The tokens SimpleAtod reads as the game's komi.
KomiTokens == {"7.5"}

\* The tokens whose first character, lowered, is 'b' / 'w'.
BlackTokens == {"b", "B", "black"}

WhiteTokens == {"w", "W", "white"}

\* HandleBenchmark that returns with the temporary options still set.
HandleBenchmarkNoRestore(args, cl) ==
    IF ~CheckArgsRange(0, 2, args).ok THEN Result(CheckArgsRange(0, 2, args), cl)
    ELSE IF Len(args) > 0 /\ ~SimpleAtoi(args[1])
         THEN Result(ResponseError(<<"bad num_readouts">>), cl)
    ELSE IF Len(args) = 2 /\ ~SimpleAtoi(args[2])
         THEN Result(ResponseError(<<"bad virtual_losses">>), cl)
    ELSE LET saved_options == cl.player_options
             temp_options ==
                 [ num_readouts |-> IF Len(args) > 0 THEN IntTokens[args[1]]
                                    ELSE saved_options.num_readouts,
                   virtual_losses |-> IF Len(args) = 2 THEN IntTokens[args[2]]
                                      ELSE saved_options.virtual_losses,
                   seconds_per_move |-> IF Len(args) > 0 THEN 0
                                        ELSE saved_options.seconds_per_move ]
         IN  Result(ResponseOk(<<>>), [cl EXCEPT !.player_options = temp_options])

HandleBenchmark(args, cl) ==
    IF ~CheckArgsRange(0, 2, args).ok THEN Result(CheckArgsRange(0, 2, args), cl)
    ELSE IF Len(args) > 0 /\ ~SimpleAtoi(args[1])
         THEN Result(ResponseError(<<"bad num_readouts">>), cl)
    ELSE IF Len(args) = 2 /\ ~SimpleAtoi(args[2])
         THEN Result(ResponseError(<<"bad virtual_losses">>), cl)
    ELSE LET saved_options == cl.player_options
             temp_options ==
                 [ num_readouts |-> IF Len(args) > 0 THEN IntTokens[args[1]]
                                    ELSE saved_options.num_readouts,
                   virtual_losses |-> IF Len(args) = 2 THEN IntTokens[args[2]]
                                      ELSE saved_options.virtual_losses,
                   seconds_per_move |-> IF Len(args) > 0 THEN 0
                                        ELSE saved_options.seconds_per_move ]
             during == [cl EXCEPT !.player_options = temp_options]
         IN  Result(ResponseOk(<<>>), [during EXCEPT !.player_options = saved_options])

HandleBoardsize(args, cl) ==
    IF ~CheckArgsExact(1, args).ok THEN Result(CheckArgsExact(1, args), cl)
    ELSE IF ~SimpleAtoi(args[1]) \/ IntTokens[args[1]] # kN
         THEN Result(ResponseError(<<"unacceptable size">>), cl)
         ELSE Result(ResponseOk(<<>>), cl)

HandleClearBoard(args, cl, now) ==
    IF ~CheckArgsExact(0, args).ok THEN Result(CheckArgsExact(0, args), cl)
    ELSE Result(ResponseOk(<<>>), NewGame(cl, now))

HandleFinalScore(args, cl) ==
    IF ~CheckArgsExact(0, args).ok THEN Result(CheckArgsExact(0, args), cl)
    ELSE IF ~GameOver(cl.history)
         THEN Result(ResponseOk(<<"score">>), cl)
         ELSE Result(ResponseOk(<<"result">>), cl)

\* HandleGenmove that searches for its move after a pass too.
HandleGenmoveNoCourtesy(args, cl, now, mv) ==
    IF ~CheckArgsRange(0, 1, args).ok THEN Result(CheckArgsRange(0, 1, args), cl)
    ELSE IF GameOver(cl.history)
         THEN Result(ResponseError(<<"game is over">>), cl)
    ELSE Result(ResponseOk(<<mv>>),
                MaybeStartPondering([cl EXCEPT !.history = Append(@, mv)], now))

\* mv is the move SuggestMove returns.
HandleGenmove(args, cl, now, mv) ==
    IF ~CheckArgsRange(0, 1, args).ok THEN Result(CheckArgsRange(0, 1, args), cl)
    ELSE IF GameOver(cl.history)
         THEN Result(ResponseError(<<"game is over">>), cl)
    ELSE LET c == IF cl.courtesy_pass /\ cl.history # <<>> /\ Last(cl.history) = "pass"
                  THEN "pass" ELSE mv
         IN  Result(ResponseOk(<<c>>),
                    MaybeStartPondering([cl EXCEPT !.history = Append(@, c)], now))

\* HandleKnownCommand that knows "quit", the command HandleCmd answers itself.
HandleKnownCommandKnowsQuit(args, cl) ==
    IF ~CheckArgsExact(1, args).ok THEN Result(CheckArgsExact(1, args), cl)
    ELSE Result(ResponseOk(<<IF IsRegistered(cl, args[1]) \/ args[1] = "quit"
                             THEN "true" ELSE "false">>),
                cl)

HandleKnownCommand(args, cl) ==
    IF ~CheckArgsExact(1, args).ok THEN Result(CheckArgsExact(1, args), cl)
    ELSE Result(ResponseOk(<<IF IsRegistered(cl, args[1]) THEN "true" ELSE "false">>),
                cl)

HandleKomi(args, cl) ==
    IF ~CheckArgsExact(1, args).ok THEN Result(CheckArgsExact(1, args), cl)
    ELSE IF args[1] \notin KomiTokens
         THEN Result(ResponseError(<<"unacceptable komi">>), cl)
         ELSE Result(ResponseOk(<<>>), cl)

\* std::sort of the keys: the names of a set in ascending order.  The
\* constructor registers the names in that order.
SortedNames(names) == SelectSeq(RegisteredNames, LAMBDA n : n \in names)

HandleListCommands(args, cl) ==
    IF ~CheckArgsExact(0, args).ok THEN Result(CheckArgsExact(0, args), cl)
    ELSE Result(ResponseOk(SortedNames(cl.cmd_handlers_)), cl)

HandleLoadsgf(args, cl, now) ==
    IF ~CheckArgsExact(1, args).ok THEN Result(CheckArgsExact(1, args), cl)
    ELSE IF args[1] \notin DOMAIN SgfFiles
         THEN Result(ResponseError(<<"cannot load file">>), cl)
         ELSE ReplaySgf(NewGame(cl, now), SgfFiles[args[1]])

HandleName(args, cl) ==
    IF ~CheckArgsExact(0, args).ok THEN Result(CheckArgsExact(0, args), cl)
    ELSE Result(ResponseOk(<<"minigo-", "model">>), cl)

\* HandlePlay without the test of the colour to move.
HandlePlayAnyColor(args, cl) ==
    IF ~CheckArgsExact(2, args).ok THEN Result(CheckArgsExact(2, args), cl)
    ELSE IF GameOver(cl.history)
         THEN Result(ResponseError(<<"game is over">>), cl)
    ELSE IF args[1] \notin BlackTokens \cup WhiteTokens
         THEN Result(ResponseError(<<"illegal move">>), cl)
    ELSE IF CoordFromGtp(args[2]) = "invalid"
         THEN Result(ResponseError(<<"illegal move">>), cl)
    ELSE IF ~CanPlayMove(cl.history, CoordFromGtp(args[2]))
         THEN Result(ResponseError(<<"illegal move">>), cl)
         ELSE Result(ResponseOk(<<>>),
                     [cl EXCEPT !.history = Append(@, CoordFromGtp(args[2]))])

HandlePlay(args, cl) ==
    IF ~CheckArgsExact(2, args).ok THEN Result(CheckArgsExact(2, args), cl)
    ELSE IF GameOver(cl.history)
         THEN Result(ResponseError(<<"game is over">>), cl)
    ELSE IF args[1] \notin BlackTokens \cup WhiteTokens
         THEN Result(ResponseError(<<"illegal move">>), cl)
    ELSE IF (IF args[1] \in BlackTokens THEN "b" ELSE "w") # ToPlay(cl.history)
         THEN Result(ResponseError(<<"out of turn moves are not yet supported">>), cl)
    ELSE IF CoordFromGtp(args[2]) = "invalid"
         THEN Result(ResponseError(<<"illegal move">>), cl)
    ELSE IF ~CanPlayMove(cl.history, CoordFromGtp(args[2]))
         THEN Result(ResponseError(<<"illegal move">>), cl)
         ELSE Result(ResponseOk(<<>>),
                     [cl EXCEPT !.history = Append(@, CoordFromGtp(args[2]))])

\* HandlePonder that takes every mode other than "off" and "reads" for "time".
HandlePonderElseTime(args, cl, now) ==
    IF ~CheckArgsRange(1, 2, args).ok THEN Result(CheckArgsRange(1, 2, args), cl)
    ELSE IF args[1] = "off"
         THEN Result(ResponseOk(<<>>),
                     [cl EXCEPT !.ponder_type_ = "kOff",
                                !.ponder_read_count_ = 0,
                                !.ponder_limit = 0,
                                !.ponder_duration_ = 0,
                                !.ponder_time_limit_ = InfinitePast,
                                !.ponder_limit_reached_ = TRUE])
    ELSE IF ~CheckArgsExact(2, args).ok THEN Result(CheckArgsExact(2, args), cl)
    ELSE IF args[1] = "reads"
         THEN IF ~SimpleAtoi(args[2]) \/ IntTokens[args[2]] <= 0
              THEN Result(ResponseError(<<"couldn't parse read limit">>), cl)
              ELSE Result(ResponseOk(<<>>),
                          [cl EXCEPT !.ponder_limit = IntTokens[args[2]],
                                     !.ponder_type_ = "kReadLimited",
                                     !.ponder_read_count_ = 0,
                                     !.ponder_limit_reached_ = FALSE])
    ELSE IF ~SimpleAtof(args[2]) \/ IntTokens[args[2]] <= 0
         THEN Result(ResponseError(<<"couldn't parse time limit">>), cl)
         ELSE Result(ResponseOk(<<>>),
                     [cl EXCEPT !.ponder_type_ = "kTimeLimited",
                                !.ponder_duration_ = IntTokens[args[2]],
                                !.ponder_time_limit_ = now + IntTokens[args[2]],
                                !.ponder_limit_reached_ = FALSE])

HandlePonder(args, cl, now) ==
    IF ~CheckArgsRange(1, 2, args).ok THEN Result(CheckArgsRange(1, 2, args), cl)
    ELSE IF args[1] = "off"
         THEN Result(ResponseOk(<<>>),
                     [cl EXCEPT !.ponder_type_ = "kOff",
                                !.ponder_read_count_ = 0,
                                !.ponder_limit = 0,
                                !.ponder_duration_ = 0,
                                !.ponder_time_limit_ = InfinitePast,
                                !.ponder_limit_reached_ = TRUE])
    ELSE IF ~CheckArgsExact(2, args).ok THEN Result(CheckArgsExact(2, args), cl)
    ELSE IF args[1] = "reads"
         THEN IF ~SimpleAtoi(args[2]) \/ IntTokens[args[2]] <= 0
              THEN Result(ResponseError(<<"couldn't parse read limit">>), cl)
              ELSE Result(ResponseOk(<<>>),
                          [cl EXCEPT !.ponder_limit = IntTokens[args[2]],
                                     !.ponder_type_ = "kReadLimited",
                                     !.ponder_read_count_ = 0,
                                     !.ponder_limit_reached_ = FALSE])
    ELSE IF args[1] = "time"
         THEN IF ~SimpleAtof(args[2]) \/ IntTokens[args[2]] <= 0
              THEN Result(ResponseError(<<"couldn't parse time limit">>), cl)
              ELSE Result(ResponseOk(<<>>),
                          [cl EXCEPT !.ponder_type_ = "kTimeLimited",
                                     !.ponder_duration_ = IntTokens[args[2]],
                                     !.ponder_time_limit_ = now + IntTokens[args[2]],
                                     !.ponder_limit_reached_ = FALSE])
    ELSE Result(ResponseError(<<"unrecognized ponder mode">>), cl)

HandleReadouts(args, cl) ==
    IF ~CheckArgsExact(1, args).ok THEN Result(CheckArgsExact(1, args), cl)
    ELSE IF ~SimpleAtoi(args[1]) \/ IntTokens[args[1]] <= 0
         THEN Result(ResponseError(<<"couldn't parse ", args[1],
                                     " as an integer > 0">>), cl)
         ELSE Result(ResponseOk(<<>>),
                     [cl EXCEPT !.player_options.num_readouts = IntTokens[args[1]]])

HandleShowboard(args, cl) ==
    IF ~CheckArgsExact(0, args).ok THEN Result(CheckArgsExact(0, args), cl)
    ELSE Result(ResponseOk(<<"\n">> \o cl.history), cl)

\* HandleUndo that lets pondering start again after the undo.
HandleUndoClearsLimit(args, cl) ==
    IF ~CheckArgsExact(0, args).ok THEN Result(CheckArgsExact(0, args), cl)
    ELSE IF cl.history = <<>>
         THEN Result(ResponseError(<<"cannot undo">>), cl)
         ELSE Result(ResponseOk(<<>>), [cl EXCEPT !.history = Front(@),
                                                  !.ponder_limit_reached_ = FALSE])

HandleUndo(args, cl) ==
    IF ~CheckArgsExact(0, args).ok THEN Result(CheckArgsExact(0, args), cl)
    ELSE IF cl.history = <<>>
         THEN Result(ResponseError(<<"cannot undo">>), cl)
         ELSE Result(ResponseOk(<<>>), [cl EXCEPT !.history = Front(@)])

DispatchCmd(cmd, args, cl, now, mv) ==
    IF ~IsRegistered(cl, cmd) THEN Result(ResponseError(<<"unknown command">>), cl)
    ELSE CASE cmd = "benchmark"     -> HandleBenchmark(args, cl)
           [] cmd = "boardsize"     -> HandleBoardsize(args, cl)
           [] cmd = "clear_board"   -> HandleClearBoard(args, cl, now)
           [] cmd = "final_score"   -> HandleFinalScore(args, cl)
           [] cmd = "genmove"       -> HandleGenmove(args, cl, now, mv)
           [] cmd = "known_command" -> HandleKnownCommand(args, cl)
           [] cmd = "komi"          -> HandleKomi(args, cl)
           [] cmd = "list_commands" -> HandleListCommands(args, cl)
           [] cmd = "loadsgf"       -> HandleLoadsgf(args, cl, now)
           [] cmd = "name"          -> HandleName(args, cl)
           [] cmd = "play"          -> HandlePlay(args, cl)
           [] cmd = "ponder"        -> HandlePonder(args, cl, now)
           [] cmd = "readouts"      -> HandleReadouts(args, cl)
           [] cmd = "showboard"     -> HandleShowboard(args, cl)
           [] cmd = "undo"          -> HandleUndo(args, cl)

\* has_cmd_id: the first token parses as an integer.
HasCmdId(line) == line # <<>> /\ SimpleAtoi(line[1])

\* The line holds an id and nothing else: args is empty when args[0] is read.
IdOnly(line) == HasCmdId(line) /\ Len(line) = 1

\* cmd = args[0] after the id is erased.  On a line that holds only an id the
\* read is out of bounds; when it returns, it finds the erased id token.
CmdOf(line) == IF HasCmdId(line) /\ ~IdOnly(line) THEN line[2] ELSE line[1]

ArgsOf(line) == IF HasCmdId(line) THEN Tail2(Tail2(line)) ELSE Tail2(line)

\* Whether HandleCmd ends the process instead of returning.
HandleCmdAborts(line, ub) == IdOnly(line) /\ ub = "abort"

\* HandleCmd that sets the id on a successful Response only.
HandleCmdIdOnSuccess(line, cl, now, mv) ==
    IF line = <<>> THEN Result(ResponseOk(<<>>), cl)
    ELSE LET res == IF CmdOf(line) = "quit" THEN Result(ResponseDone, cl)
                    ELSE DispatchCmd(CmdOf(line), ArgsOf(line), cl, now, mv)
         IN  IF HasCmdId(line) /\ res.response.ok
             THEN Result([res.response EXCEPT !.cmd_id = <<IntTokens[line[1]]>>],
                         res.client)
             ELSE res

\* HandleCmd, when it returns.
HandleCmd(line, cl, now, mv) ==
    IF line = <<>> THEN Result(ResponseOk(<<>>), cl)
    ELSE LET res == IF CmdOf(line) = "quit" THEN Result(ResponseDone, cl)
                    ELSE DispatchCmd(CmdOf(line), ArgsOf(line), cl, now, mv)
         IN  IF HasCmdId(line)
             THEN Result([res.response EXCEPT !.cmd_id = <<IntTokens[line[1]]>>],
                         res.client)
             ELSE res

\* ------------------------------------------------------------------ state
VARIABLES
    client,        \* the GtpClient members of MakeClient
    now,           \* absl::Now()
    cin,           \* std::cin: "good", "eof" (eofbit only) or "fail"
    nread,         \* lines the stream has delivered
    line,          \* the reader's local line, kept while getline can leave it
    reader_pc,     \* the reader thread: "loop" or "exited"
    stdin_queue_,  \* the queue: entries [line, seq, incr, old]
    npushed,       \* entries pushed so far
    running,       \* the atomic flag of Run
    main_pc,       \* Run: "start", "while", "trypop", "ponder", "popwait", "done",
                   \* or "aborted" when the process has ended in HandleCmd
    cout,          \* std::cout: the Response written last, <<>> before the first
    ndispatched,   \* lines passed to HandleCmd so far
    last_seq,      \* push number of the line passed to HandleCmd last
    last_line,     \* the line passed to HandleCmd last
    iter_trypop,   \* the TryPop of the current iteration: "none", "empty", "got"
    iter_incr      \* ponder increments started in the current iteration

vars == << client, now, cin, nread, line, reader_pc, stdin_queue_, npushed,
           running, main_pc, cout, ndispatched, last_seq, last_line, iter_trypop,
           iter_incr >>

readerVars == << cin, nread, line, reader_pc, npushed >>

mainVars == << client, main_pc, cout, ndispatched, last_seq, last_line, iter_trypop,
               iter_incr >>

InitWith(courtesies) ==
    /\ \E limit \in InitialPonderLimits, courtesy \in courtesies :
           client = MakeClient(limit, courtesy)
    /\ now = 0
    /\ cin = "good"
    /\ nread = 0
    /\ line = <<>>
    /\ reader_pc = "loop"
    /\ stdin_queue_ = <<>>
    /\ npushed = 0
    /\ running = TRUE
    /\ main_pc = "start"
    /\ cout = <<>>
    /\ ndispatched = 0
    /\ last_seq = 0
    /\ last_line = <<>>
    /\ iter_trypop = "none"
    /\ iter_incr = 0

Init == InitWith(CourtesyPassOptions)

SessionInit == InitWith(SessionCourtesyPassOptions)

\* ------------------------------------------------------- the stdin thread
\* stdin_queue_.Push(l), with the bookkeeping of the entry.
Push(q, l, n) == Append(q, [line |-> l, seq |-> n + 1, incr |-> 0, old |-> FALSE])

\* getline reads a complete line, one of the set S; the reader pushes it.
ReaderLine(S) ==
    /\ reader_pc = "loop" /\ cin = "good" /\ nread < MaxLines
    /\ \E l \in S :
          /\ stdin_queue_' = Push(stdin_queue_, l, npushed)
          /\ line' = <<>>
    /\ nread' = nread + 1
    /\ npushed' = npushed + 1
    /\ UNCHANGED << cin, reader_pc, now, running >>
    /\ UNCHANGED mainVars

\* getline reads a last line that no newline ends: it sets eofbit alone, and
\* the reader pushes the line.
ReaderLastLine(S) ==
    /\ reader_pc = "loop" /\ cin = "good" /\ nread < MaxLines
    /\ \E l \in S :
          /\ stdin_queue_' = Push(stdin_queue_, l, npushed)
          /\ line' = l
    /\ cin' = "eof"
    /\ nread' = nread + 1
    /\ npushed' = npushed + 1
    /\ UNCHANGED << reader_pc, now, running >>
    /\ UNCHANGED mainVars

\* getline at the end of the stream: it erases line, reads nothing and sets
\* failbit; the reader pushes the empty line.
ReaderEof ==
    /\ reader_pc = "loop" /\ cin = "good"
    /\ stdin_queue_' = Push(stdin_queue_, <<>>, npushed)
    /\ line' = <<>>
    /\ cin' = "fail"
    /\ npushed' = npushed + 1
    /\ UNCHANGED << nread, reader_pc, now, running >>
    /\ UNCHANGED mainVars

\* getline with eofbit set: the sentry fails, sets failbit and leaves line as
\* it was; the reader pushes it.
ReaderAfterEof ==
    /\ reader_pc = "loop" /\ cin = "eof"
    /\ stdin_queue_' = Push(stdin_queue_, line, npushed)
    /\ line' = <<>>
    /\ cin' = "fail"
    /\ npushed' = npushed + 1
    /\ UNCHANGED << nread, reader_pc, now, running >>
    /\ UNCHANGED mainVars

\* while (std::cin) fails: running = false, and the thread ends.
ReaderExit ==
    /\ reader_pc = "loop" /\ cin = "fail"
    /\ running' = FALSE
    /\ reader_pc' = "exited"
    /\ UNCHANGED << cin, nread, line, npushed, stdin_queue_, now >>
    /\ UNCHANGED mainVars

\* ------------------------------------------------------------ the clock
Tick ==
    /\ now < MaxTime
    /\ now' = now + 1
    /\ UNCHANGED << stdin_queue_, running >>
    /\ UNCHANGED readerVars
    /\ UNCHANGED mainVars

\* ------------------------------------------------------- Run's main loop
\* NewGame() before the loop.
RunStart ==
    /\ main_pc = "start"
    /\ client' = NewGame(client, now)
    /\ main_pc' = "while"
    /\ UNCHANGED << cout, ndispatched, last_seq, last_line, iter_trypop, iter_incr >>
    /\ UNCHANGED << stdin_queue_, running, now >>
    /\ UNCHANGED readerVars

\* while (running): a new iteration begins, or Run leaves the loop.
WhileRunning ==
    /\ main_pc = "while"
    /\ IF running
       THEN /\ main_pc' = "trypop"
            /\ stdin_queue_' = [i \in 1..Len(stdin_queue_) |->
                                   [stdin_queue_[i] EXCEPT !.old = TRUE]]
            /\ UNCHANGED running
       ELSE /\ main_pc' = "done"
            /\ running' = FALSE
            /\ UNCHANGED stdin_queue_
    /\ iter_trypop' = "none"
    /\ iter_incr' = 0
    /\ UNCHANGED << client, cout, ndispatched, last_seq, last_line, now >>
    /\ UNCHANGED readerVars

\* The entry a pop removes.
PopEntry(q) == Head(q)

PopRest(q) == Tail(q)

\* Dispatch without the break on a done response.
DispatchNoBreak(e, next_pc) ==
    \E mv \in SuggestedMoves(client.history), ub \in UndefinedOutcomesOf(e.line) :
        LET res == HandleCmd(e.line, client, now, mv)
        IN  /\ ndispatched' = ndispatched + 1
            /\ last_seq' = e.seq
            /\ last_line' = e.line
            /\ IF HandleCmdAborts(e.line, ub)
               THEN main_pc' = "aborted" /\ UNCHANGED << client, cout, running >>
               ELSE /\ client' = res.client
                    /\ cout' = << res.response >>
                    /\ main_pc' = next_pc /\ UNCHANGED running

\* HandleCmd on a popped entry, std::cout << response, and the break when the
\* response is done.  A HandleCmd that aborts ends the process.
Dispatch(e, next_pc) ==
    \E mv \in SuggestedMoves(client.history), ub \in UndefinedOutcomesOf(e.line) :
        LET res == HandleCmd(e.line, client, now, mv)
        IN  /\ ndispatched' = ndispatched + 1
            /\ last_seq' = e.seq
            /\ last_line' = e.line
            /\ IF HandleCmdAborts(e.line, ub)
               THEN main_pc' = "aborted" /\ UNCHANGED << client, cout, running >>
               ELSE /\ client' = res.client
                    /\ cout' = << res.response >>
                    /\ IF res.response.done
                       THEN main_pc' = "done" /\ running' = FALSE
                       ELSE main_pc' = next_pc /\ UNCHANGED running

\* TryPopLine without the continue: the iteration goes on to MaybePonder.
TryPopLineFallThrough ==
    /\ main_pc = "trypop"
    /\ stdin_queue_ # <<>>
    /\ stdin_queue_' = PopRest(stdin_queue_)
    /\ Dispatch(PopEntry(stdin_queue_), "ponder")
    /\ iter_trypop' = "got"
    /\ UNCHANGED << iter_incr, now >>
    /\ UNCHANGED readerVars

\* stdin_queue_.TryPop(&line) finds a line.
TryPopLine ==
    /\ main_pc = "trypop"
    /\ stdin_queue_ # <<>>
    /\ stdin_queue_' = PopRest(stdin_queue_)
    /\ Dispatch(PopEntry(stdin_queue_), "while")
    /\ iter_trypop' = "got"
    /\ UNCHANGED << iter_incr, now >>
    /\ UNCHANGED readerVars

\* stdin_queue_.TryPop(&line) finds the queue empty.
TryPopEmpty ==
    /\ main_pc = "trypop"
    /\ stdin_queue_ = <<>>
    /\ main_pc' = "ponder"
    /\ iter_trypop' = "empty"
    /\ UNCHANGED << client, cout, ndispatched, last_seq, last_line, iter_incr >>
    /\ UNCHANGED << stdin_queue_, running, now >>
    /\ UNCHANGED readerVars

\* The entries of the queue see one more increment start.
NoteIncrement(q) == [i \in 1..Len(q) |-> [q[i] EXCEPT !.incr = @ + 1]]

\* if (!MaybePonder()): one increment and back to the loop test, or on to the
\* timed pop.
PonderStep ==
    /\ main_pc = "ponder"
    /\ \E reads \in 1..MaxIncrement :
          LET res == MaybePonder(client, now, reads)
          IN  /\ res.client.ponder_read_count_ <= MaxReadCount
              /\ client' = res.client
              /\ IF res.ret
                 THEN /\ main_pc' = "while"
                      /\ iter_incr' = iter_incr + 1
                      /\ stdin_queue_' = NoteIncrement(stdin_queue_)
                 ELSE /\ main_pc' = "popwait"
                      /\ UNCHANGED << iter_incr, stdin_queue_ >>
    /\ UNCHANGED << cout, ndispatched, last_seq, last_line, iter_trypop >>
    /\ UNCHANGED << running, now >>
    /\ UNCHANGED readerVars

\* PopWithTimeoutLine with the popped line dropped instead of handled.
PopWithTimeoutLineDropped ==
    /\ main_pc = "popwait"
    /\ stdin_queue_ # <<>>
    /\ stdin_queue_' = PopRest(stdin_queue_)
    /\ main_pc' = "while"
    /\ UNCHANGED << client, cout, ndispatched, last_seq, last_line, running >>
    /\ UNCHANGED << iter_trypop, iter_incr, now >>
    /\ UNCHANGED readerVars

\* stdin_queue_.PopWithTimeout(&line, 1 s) returns a line.
PopWithTimeoutLine ==
    /\ main_pc = "popwait"
    /\ stdin_queue_ # <<>>
    /\ stdin_queue_' = PopRest(stdin_queue_)
    /\ Dispatch(PopEntry(stdin_queue_), "while")
    /\ UNCHANGED << iter_trypop, iter_incr, now >>
    /\ UNCHANGED readerVars

\* PopWithTimeoutEmpty with a pop that waits for a line without a timeout.
PopWithTimeoutEmptyBlocks ==
    /\ main_pc = "popwait"
    /\ stdin_queue_ = <<>>
    /\ UNCHANGED vars

\* stdin_queue_.PopWithTimeout(&line, 1 s) times out.
PopWithTimeoutEmpty ==
    /\ main_pc = "popwait"
    /\ stdin_queue_ = <<>>
    /\ main_pc' = "while"
    /\ UNCHANGED << client, cout, ndispatched, last_seq, last_line, iter_trypop,
                    iter_incr >>
    /\ UNCHANGED << stdin_queue_, running, now >>
    /\ UNCHANGED readerVars

\* ------------------------------------------- the main thread on its own
\* An iteration of the loop in which TryPop or PopWithTimeout returns a line:
\* the line goes to HandleCmd.  Any line of S can be next in the queue.
SessionCommand(S) ==
    /\ main_pc = "while"
    /\ ndispatched < MaxCommands
    /\ \E l \in S :
          Dispatch([line |-> l, seq |-> ndispatched + 1, incr |-> 0, old |-> TRUE],
                   "while")
    /\ iter_trypop' = "got"
    /\ iter_incr' = 0
    /\ UNCHANGED << stdin_queue_, now >>
    /\ UNCHANGED readerVars

\* An iteration of the loop that finds the queue empty: MaybePonder.
SessionIdle ==
    /\ main_pc = "while"
    /\ \E reads \in 1..MaxIncrement :
          LET res == MaybePonder(client, now, reads)
          IN  /\ res.client.ponder_read_count_ <= MaxReadCount
              /\ client' = res.client
              /\ iter_incr' = IF res.ret THEN 1 ELSE 0
    /\ iter_trypop' = "empty"
    /\ UNCHANGED << main_pc, cout, ndispatched, last_seq, last_line >>
    /\ UNCHANGED << stdin_queue_, running, now >>
    /\ UNCHANGED readerVars

Reader(S) ==
    ReaderLine(S) \/ ReaderLastLine(S) \/ ReaderEof \/ ReaderAfterEof \/ ReaderExit

Main == RunStart \/ WhileRunning \/ TryPopLine \/ TryPopEmpty \/ PonderStep
           \/ PopWithTimeoutLine \/ PopWithTimeoutEmpty

Next == Reader(RunLines) \/ Main \/ Tick

Spec == Init /\ [][Next]_vars

\* Run with a main thread that keeps running: a step of the loop that can be
\* taken is taken.
FairNext == Reader(PonderLines) \/ Main \/ Tick

FairSpec == Init /\ [][FairNext]_vars /\ WF_vars(Main)

\* Run in the modes kOff and kReadLimited of the client options and the mode
\* kTimeLimited of a ponder command.
ReturnNext == Reader(ReturnLines) \/ Main \/ Tick

ReturnSpec == Init /\ [][ReturnNext]_vars /\ WF_vars(Main)

SessionNext == RunStart \/ SessionCommand(Lines) \/ SessionIdle \/ Tick

SessionSpec == SessionInit /\ [][SessionNext]_vars

\* The command interpreter: the lines of ProtocolLines, with the idle
\* iterations in between.  No line reads the clock.
ProtocolNext == RunStart \/ SessionCommand(ProtocolLines) \/ SessionIdle

ProtocolSpec == SessionInit /\ [][ProtocolNext]_vars

\* ================================================================= claims
\* A quit command has been dispatched: the last Response written is done.
QuitDispatched == cout # <<>> /\ cout[1].done

\* A step in which a ponder increment (Ponder / TreeSearch) runs: the only
\* thing that raises ponder_read_count_.
IncrementStep == client'.ponder_read_count_ > client.ponder_read_count_

\* A step that passes a line to HandleCmd.
DispatchStep == ndispatched' = ndispatched + 1

\* C1: Run never leaves its loop because the stream closed while the queue
\* still holds lines: when Run has returned and no quit was dispatched, no
\* line the stream delivered is left in the queue (the entries the reader
\* pushes for its failed reads at the end of the stream come after them).
C1_QueueDrainedAtReturn ==
    (main_pc = "done" /\ ~QuitDispatched) =>
        \A i \in 1..Len(stdin_queue_) : stdin_queue_[i].seq > nread

\* C2: the lines go to HandleCmd in the order of their pushes, each once: the
\* k-th line dispatched is the k-th line pushed, and the queue holds the lines
\* pushed and not yet dispatched, oldest first.
C2_DispatchInPushOrder ==
    /\ last_seq = ndispatched
    /\ npushed = ndispatched + Len(stdin_queue_)
    /\ \A i \in 1..Len(stdin_queue_) : stdin_queue_[i].seq = ndispatched + i

\* Two lines dispatched with a ponder increment in between and a third one
\* waiting.
C2_Witness ==
    /\ ndispatched = 2
    /\ Len(stdin_queue_) >= 1
    /\ client.ponder_read_count_ > 0
    /\ last_line = <<"genmove">>
    /\ stdin_queue_[1].incr = 1

\* C3: an increment starts only in an iteration whose TryPop found the queue
\* empty, at most once in an iteration, and never while a line waits that was
\* queued when the iteration began; so no line sees more than one increment
\* start between its push and its dispatch.
C3_OneIncrementPerIdleIteration ==
    /\ [](/\ iter_incr <= 1
          /\ (iter_incr = 1 => iter_trypop = "empty")
          /\ \A i \in 1..Len(stdin_queue_) : stdin_queue_[i].incr <= 1)
    /\ [][ IncrementStep =>
             /\ iter_trypop = "empty"
             /\ iter_incr = 0
             /\ \A i \in 1..Len(stdin_queue_) :
                   ~stdin_queue_[i].old /\ stdin_queue_[i].incr = 0 ]_vars

\* A line pushed after the TryPop of an iteration saw the increment of that
\* iteration start, and waits at the start of the next iteration.
C3_Witness ==
    /\ main_pc = "trypop"
    /\ stdin_queue_ # <<>>
    /\ stdin_queue_[1].incr = 1
    /\ stdin_queue_[1].old

\* Read-limited pondering whose budget is used up.
ReadLimitUsedUp ==
    /\ client.ponder_type_ = "kReadLimited"
    /\ client.ponder_read_count_ >= client.ponder_limit

\* C4: under read-limited pondering, once the read count is at least the
\* limit no step runs an increment, and the MaybePonder called then returns
\* false (Run goes on to the timed pop); re-arming resets the count.
C4_NoIncrementPastReadLimit ==
    [][ ReadLimitUsedUp =>
          /\ ~IncrementStep
          /\ (main_pc = "ponder" /\ main_pc' # "ponder" => main_pc' = "popwait") ]_vars

\* MaybePonder has returned false with the budget used up.
C4_Witness ==
    /\ main_pc = "popwait"
    /\ iter_trypop = "empty"
    /\ ReadLimitUsedUp
    /\ client.ponder_read_count_ > client.ponder_limit
    /\ client.ponder_limit_reached_

\* The line passed to HandleCmd last was a quit command.
LastWasQuit == ndispatched > 0 /\ last_line # <<>> /\ CmdOf(last_line) = "quit"

\* C10: the Response of a quit line is ok and done and is written, and the
\* loop stops with it: afterwards no line is dispatched, nothing is written
\* and no increment runs.
C10_QuitStopsTheLoop ==
    /\ [](LastWasQuit => /\ cout # <<>> /\ cout[1].ok /\ cout[1].done
                         /\ main_pc = "done")
    /\ [][ LastWasQuit => /\ ~DispatchStep /\ ~IncrementStep
                          /\ cout' = cout /\ client' = client ]_vars

\* quit came through TryPop while pondering was armed, and a line the stream
\* delivered waits behind it.
C10_Witness ==
    /\ LastWasQuit
    /\ iter_trypop = "got"
    /\ stdin_queue_ # <<>>
    /\ stdin_queue_[1].seq <= nread
    /\ stdin_queue_[1].line = <<"genmove">>
    /\ client.ponder_type_ = "kReadLimited"
    /\ ~client.ponder_limit_reached_

\* quit came through PopWithTimeout.
C10_WitnessTimedPop ==
    /\ LastWasQuit
    /\ iter_trypop = "empty"
    /\ stdin_queue_ # <<>>

\* Read-limited pondering is on in a game that is not over, and the loop runs.
C8_Pondering ==
    /\ main_pc \in {"while", "trypop", "ponder", "popwait"}
    /\ client.ponder_type_ = "kReadLimited"
    /\ ~GameOver(client.history)

\* The budget is used up and ponder_limit_reached_ is set.
C8_Finished ==
    /\ client.ponder_limit_reached_
    /\ client.ponder_read_count_ >= client.ponder_limit

\* C8: the loop cannot stay for ever in read-limited pondering, in a game
\* that is not over, with the budget not used up: once the lines have been
\* dispatched, the idle iterations run increments until ponder_limit_reached_
\* is set with the read count at least the limit (or Run returns); the flag
\* is set only with the budget used up, and no increment runs while it is set.
C8_IdleIterationsReachTheLimit ==
    /\ []<>(C8_Finished \/ ~C8_Pondering)
    /\ [](client.ponder_type_ = "kReadLimited" /\ client.ponder_limit_reached_
             => client.ponder_read_count_ >= client.ponder_limit)
    /\ [][ client.ponder_limit_reached_ => ~IncrementStep ]_vars

\* After "ponder reads 2" the idle iterations have used up the budget, and
\* the loop waits in the timed pop.
C8_Witness ==
    /\ last_line = <<"ponder", "reads", "2">>
    /\ cout[1].ok
    /\ C8_Finished
    /\ client.ponder_type_ = "kReadLimited"
    /\ main_pc = "popwait"

\* A step that dispatches a line whose command is one of names.
CommandStep(names) ==
    DispatchStep /\ last_line' # <<>> /\ CmdOf(last_line') \in names

\* The NewGame() of Run before its loop.
StartStep == main_pc = "start" /\ main_pc' # "start"

\* A step that dispatches a loadsgf which gets as far as NewGame().
LoadsgfNewGameStep ==
    /\ CommandStep({"loadsgf"})
    /\ cout'[1].ok \/ cout'[1].str = <<"Cannot load file">>

\* C5 as claimed: once ponder_limit_reached_ is set, it stays set and no
\* increment runs until a new game starts or a ponder command is processed.
C5_LimitReachedUntilNewGameOrPonder ==
    [][ client.ponder_limit_reached_ =>
          \/ client'.ponder_limit_reached_ /\ ~IncrementStep
          \/ StartStep
          \/ CommandStep({"clear_board", "loadsgf", "ponder"}) ]_vars

\* C5 amended: ... until a new game starts, a ponder command is processed, or
\* a genmove succeeds (HandleGenmove restarts pondering).
C5_LimitReachedUntilRearmed ==
    [][ client.ponder_limit_reached_ =>
          \/ client'.ponder_limit_reached_ /\ ~IncrementStep
          \/ StartStep
          \/ CommandStep({"clear_board", "loadsgf", "ponder"})
          \/ CommandStep({"genmove"}) /\ cout'[1].ok ]_vars

\* The limit was reached, and a play and an undo later the flag is still set
\* and the idle iteration runs no increment.
C5_Witness ==
    /\ client.ponder_type_ = "kReadLimited"
    /\ client.ponder_limit_reached_
    /\ client.ponder_read_count_ >= client.ponder_limit
    /\ last_line = <<"undo">>
    /\ cout[1].ok
    /\ iter_trypop = "empty"
    /\ iter_incr = 0

\* C6: while the mode is kOff no step runs an increment, and the mode leaves
\* kOff only by a "ponder reads" or "ponder time" command that succeeds.
C6_OffNeverPonders ==
    [][ client.ponder_type_ = "kOff" =>
          /\ ~IncrementStep
          /\ client'.ponder_type_ # "kOff" =>
                /\ CommandStep({"ponder"})
                /\ ArgsOf(last_line')[1] \in {"reads", "time"}
                /\ cout'[1].ok ]_vars

\* MaybePonder was called in mode kOff, with ponder_limit_reached_ not set,
\* after a genmove and an undo, and ran no increment.
C6_Witness ==
    /\ client.ponder_type_ = "kOff"
    /\ ~client.ponder_limit_reached_
    /\ ~GameOver(client.history)
    /\ ndispatched >= 2
    /\ last_line = <<"undo">>
    /\ cout[1].ok
    /\ iter_trypop = "empty"
    /\ iter_incr = 0

\* C7: a command whose Response is a failure leaves the session and the
\* ponder state as they were.
C7_FailureChangesNothing ==
    [][ DispatchStep /\ ~cout'[1].ok => client' = client ]_vars

\* Time-limited pondering whose deadline has passed.
TimeLimitUsedUp ==
    /\ client.ponder_type_ = "kTimeLimited"
    /\ now >= client.ponder_time_limit_

\* A step that re-arms pondering: a new game, a genmove or a ponder command
\* that succeeds.
RearmStep ==
    \/ StartStep
    \/ CommandStep({"clear_board", "genmove", "ponder"}) /\ cout'[1].ok
    \/ LoadsgfNewGameStep

\* C9: under time-limited pondering no increment runs once the clock has
\* reached the deadline; every re-arming sets the deadline to the clock plus
\* the duration, and nothing else moves the deadline or the duration.
C9_NoIncrementPastDeadline ==
    [][ /\ TimeLimitUsedUp => ~IncrementStep
        /\ RearmStep /\ client'.ponder_type_ = "kTimeLimited" =>
              client'.ponder_time_limit_ = now + client'.ponder_duration_
        /\ ~RearmStep /\ client.ponder_type_ = "kTimeLimited" =>
              /\ client'.ponder_type_ = "kTimeLimited"
              /\ client'.ponder_time_limit_ = client.ponder_time_limit_
              /\ client'.ponder_duration_ = client.ponder_duration_ ]_vars

\* "ponder time 1" was given at time 0, a genmove at time 1 armed pondering
\* again for the deadline 2, and at time 2 MaybePonder found it passed.
C9_Witness ==
    /\ TimeLimitUsedUp
    /\ client.ponder_limit_reached_
    /\ client.ponder_duration_ = 1
    /\ client.ponder_time_limit_ = 2
    /\ last_line = <<"genmove">>
    /\ iter_trypop = "empty"
    /\ iter_incr = 0

\* A step in which HandleCmd returns a Response for the line it was given.
ResponseStep == DispatchStep /\ main_pc' # "aborted"

\* C11: the Response of a line whose first token parses as an integer carries
\* that integer as cmd_id, on every path (quit, a registered name, an unknown
\* name, a handler that fails); the Response of any other line carries none;
\* and a line with an id and a command name runs the handler of the same line
\* without the id, with the same Response body and the same effect.
C11_CmdIdEchoed ==
    [][ ResponseStep =>
          /\ HasCmdId(last_line') => cout'[1].cmd_id = << IntTokens[last_line'[1]] >>
          /\ ~HasCmdId(last_line') => cout'[1].cmd_id = <<>>
          /\ HasCmdId(last_line') /\ ~IdOnly(last_line') =>
                \E mv \in SuggestedMoves(client.history) :
                   LET res == HandleCmd(Tail2(last_line'), client, now, mv)
                   IN  /\ client' = res.client
                       /\ [cout'[1] EXCEPT !.cmd_id = <<>>] = res.response ]_vars

\* "7 undo" took back the move of a play command, and its Response carries
\* the id 7.
C11_Witness ==
    /\ last_line = <<"7", "undo">>
    /\ cout[1].ok
    /\ cout[1].cmd_id = <<7>>
    /\ ndispatched = 2
    /\ client.history = <<>>

\* A step that dispatches a ponder command with one or two arguments, the
\* first of them none of "off", "reads" and "time".
OtherPonderModeStep ==
    /\ CommandStep({"ponder"})
    /\ Len(ArgsOf(last_line')) \in {1, 2}
    /\ ArgsOf(last_line')[1] \notin {"off", "reads", "time"}

\* C12 as claimed: a ponder command whose sub-argument is none of "off",
\* "reads" and "time" fails with "unrecognized ponder mode" and leaves the
\* ponder state as it was, with one argument and with two.
C12_OtherModeUnrecognized ==
    [][ OtherPonderModeStep =>
          /\ ~cout'[1].ok
          /\ cout'[1].str = <<"unrecognized ponder mode">>
          /\ client' = client ]_vars

\* C12 amended: such a command fails and leaves the ponder state as it was;
\* with two arguments the message is "unrecognized ponder mode", with one
\* argument it is that of the check for exactly two arguments.
C12_OtherModeRefused ==
    [][ OtherPonderModeStep =>
          /\ ~cout'[1].ok
          /\ client' = client
          /\ Len(ArgsOf(last_line')) = 2 =>
                cout'[1].str = <<"unrecognized ponder mode">>
          /\ Len(ArgsOf(last_line')) = 1 =>
                cout'[1].str = <<"expected ", "2", " args, got ", "1", " args: ",
                                 ArgsOf(last_line')[1]>> ]_vars

\* "ponder bogus 2" was refused while read-limited pondering was under way.
C12_Witness ==
    /\ last_line = <<"ponder", "bogus", "2">>
    /\ ~cout[1].ok
    /\ cout[1].str = <<"unrecognized ponder mode">>
    /\ client.ponder_type_ = "kReadLimited"
    /\ client.ponder_read_count_ > 0
    /\ ~client.ponder_limit_reached_

\* A step that dispatches a play command with a colour and a second argument.
PlayStep ==
    /\ CommandStep({"play"})
    /\ Len(ArgsOf(last_line')) = 2
    /\ ArgsOf(last_line')[1] \in BlackTokens \cup WhiteTokens

\* The colour a play command names, and its coordinate.
PlayColor(l) == IF ArgsOf(l)[1] \in BlackTokens THEN "b" ELSE "w"

PlayCoord(l) == CoordFromGtp(ArgsOf(l)[2])

\* C13 as claimed: a play command whose colour is not the colour to move
\* fails with "out of turn moves are not yet supported" and leaves the session
\* as it was; one with the colour to move and a legal coordinate or pass
\* succeeds with an empty body and adds one move to the session.
C13_PlayChecksTurn ==
    [][ PlayStep =>
          /\ PlayColor(last_line') # ToPlay(client.history) =>
                /\ ~cout'[1].ok
                /\ cout'[1].str = <<"out of turn moves are not yet supported">>
                /\ client' = client
          /\ (/\ PlayColor(last_line') = ToPlay(client.history)
              /\ LegalMove(client.history, PlayCoord(last_line'))) =>
                /\ cout'[1].ok
                /\ cout'[1].str = <<>>
                /\ Len(client'.history) = Len(client.history) + 1 ]_vars

\* C13 amended: the same while the game is not over; once the game is over
\* every play command fails with "game is over" and leaves the session as it
\* was.  A play command that succeeds appends its move and changes nothing
\* else.
C13_PlayChecksTurnBeforeGameEnd ==
    [][ PlayStep =>
          /\ GameOver(client.history) =>
                /\ ~cout'[1].ok
                /\ cout'[1].str = <<"game is over">>
                /\ client' = client
          /\ (/\ ~GameOver(client.history)
              /\ PlayColor(last_line') # ToPlay(client.history)) =>
                /\ ~cout'[1].ok
                /\ cout'[1].str = <<"out of turn moves are not yet supported">>
                /\ client' = client
          /\ (/\ ~GameOver(client.history)
              /\ PlayColor(last_line') = ToPlay(client.history)
              /\ LegalMove(client.history, PlayCoord(last_line'))) =>
                /\ cout'[1].ok
                /\ cout'[1].str = <<>>
                /\ client' = [client EXCEPT
                                 !.history = Append(@, PlayCoord(last_line'))] ]_vars

\* "play b A1" was accepted, and then "play b pass" was refused because it is
\* white's turn.
C13_Witness ==
    /\ last_line = <<"play", "b", "pass">>
    /\ ndispatched = 2
    /\ ~cout[1].ok
    /\ cout[1].str = <<"out of turn moves are not yet supported">>
    /\ client.history = <<"A1">>

\* C14: the registry holds the names the constructor registered, in every
\* state; a line whose command name is not "quit" is answered with the
\* failure "unknown command" exactly when the name is not in the registry;
\* and known_command with one argument answers "true" when the argument is in
\* the registry and "false" when it is not.
C14_UnknownIffNotRegistered ==
    /\ [](client.cmd_handlers_ = {RegisteredNames[i] : i \in 1..Len(RegisteredNames)})
    /\ [][ ResponseStep /\ last_line' # <<>> /\ CmdOf(last_line') # "quit" =>
             ( (~cout'[1].ok /\ cout'[1].str = <<"unknown command">>)
                 <=> CmdOf(last_line') \notin client.cmd_handlers_ ) ]_vars
    /\ [][ CommandStep({"known_command"}) /\ Len(ArgsOf(last_line')) = 1 =>
             /\ cout'[1].ok
             /\ cout'[1].str =
                   IF ArgsOf(last_line')[1] \in client.cmd_handlers_
                   THEN <<"true">> ELSE <<"false">> ]_vars

\* After three other commands "known_command quit" is answered "false":
\* "quit" is no registered name.
C14_Witness ==
    /\ last_line = <<"known_command", "quit">>
    /\ cout[1].ok
    /\ cout[1].str = <<"false">>
    /\ ndispatched = 4
    /\ client.history # <<>>

\* A step that starts a new game: the NewGame() of Run before its loop, a
\* clear_board that succeeds, or a loadsgf that has read and parsed its file.
NewGameStep ==
    \/ StartStep
    \/ CommandStep({"clear_board"}) /\ cout'[1].ok
    \/ LoadsgfNewGameStep

\* C15: a new game started in the mode kReadLimited or kTimeLimited arms
\* pondering again, whatever the ponder state was: afterwards
\* ponder_limit_reached_ is false and ponder_read_count_ is 0, in kTimeLimited
\* the deadline is the clock plus the duration, and the mode, the limit and
\* the duration are as before.
C15_NewGameRearms ==
    [][ NewGameStep /\ client.ponder_type_ # "kOff" =>
          /\ ~client'.ponder_limit_reached_
          /\ client'.ponder_read_count_ = 0
          /\ client'.ponder_type_ = client.ponder_type_
          /\ client'.ponder_limit = client.ponder_limit
          /\ client'.ponder_duration_ = client.ponder_duration_
          /\ client'.ponder_time_limit_ =
                IF client.ponder_type_ = "kTimeLimited"
                THEN now + client.ponder_duration_
                ELSE client.ponder_time_limit_ ]_vars

\* "ponder time 1" set a deadline of 2 at the latest; the clear_board at
\* time 2 moved it to 3 and the idle iteration after it ran an increment.
C15_Witness ==
    /\ last_line = <<"clear_board">>
    /\ cout[1].ok
    /\ client.ponder_type_ = "kTimeLimited"
    /\ now = 2
    /\ client.ponder_time_limit_ = 3
    /\ ~client.ponder_limit_reached_
    /\ iter_incr = 1

\* A step that dispatches a genmove with an argument list it accepts.
GenmoveStep == CommandStep({"genmove"}) /\ Len(ArgsOf(last_line')) <= 1

\* The client after the move c and the restart of pondering.
AfterGenmove(c) ==
    [client EXCEPT
       !.history = Append(@, c),
       !.ponder_limit_reached_ = IF client.ponder_type_ # "kOff" THEN FALSE ELSE @,
       !.ponder_read_count_ = IF client.ponder_type_ # "kOff" THEN 0 ELSE @,
       !.ponder_time_limit_ = IF client.ponder_type_ = "kTimeLimited"
                              THEN now + client.ponder_duration_ ELSE @]

\* C16: genmove in a game that is over fails with "game is over" and changes
\* neither the session nor the ponder state; in a game that is not over it
\* answers with one legal move, which is a pass when courtesy_pass is set and
\* the last move was a pass, appends that move to the session and arms
\* pondering again (in a mode other than kOff).
C16_GenmovePlaysOneMove ==
    [][ GenmoveStep =>
          IF GameOver(client.history)
          THEN /\ ~cout'[1].ok
               /\ cout'[1].str = <<"game is over">>
               /\ client' = client
          ELSE /\ cout'[1].ok
               /\ Len(cout'[1].str) = 1
               /\ LegalMove(client.history, cout'[1].str[1])
               /\ (/\ client.courtesy_pass
                   /\ client.history # <<>>
                   /\ Last(client.history) = "pass") => cout'[1].str[1] = "pass"
               /\ client' = AfterGenmove(cout'[1].str[1]) ]_vars

\* With courtesy_pass set, genmove answered the pass at the end of the game
\* record loadsgf had replayed with a pass, which ended the game, and armed
\* read-limited pondering again.
C16_Witness ==
    /\ client.courtesy_pass
    /\ last_line = <<"genmove">>
    /\ cout[1].ok
    /\ cout[1].str = <<"pass">>
    /\ client.history = <<"A1", "pass", "pass">>
    /\ client.ponder_type_ = "kReadLimited"
    /\ ~client.ponder_limit_reached_
    /\ client.ponder_read_count_ = 0

\* C17: a benchmark command leaves the player's options (num_readouts,
\* virtual_losses, seconds_per_move), the session and the ponder state as they
\* were, whether it succeeds, fails on its number of arguments or fails on an
\* argument that is no integer; and the options never differ from one
\* iteration of the loop to the next except by a readouts command, so no
\* increment and no other command starts under the temporary options.
C17_BenchmarkRestoresOptions ==
    /\ [][ CommandStep({"benchmark"}) =>
             /\ client' = client
             /\ cout'[1].ok <=>
                   /\ Len(ArgsOf(last_line')) <= 2
                   /\ \A i \in 1..Len(ArgsOf(last_line')) :
                         SimpleAtoi(ArgsOf(last_line')[i]) ]_vars
    /\ [][ client'.player_options # client.player_options =>
             CommandStep({"readouts"}) /\ cout'[1].ok ]_vars

\* "readouts 2" set the readouts to 2; "benchmark 2 2" then ran with 2
\* virtual losses and no time per move, and the options are back at 1
\* virtual loss and 1 second per move.
C17_Witness ==
    /\ last_line = <<"benchmark", "2", "2">>
    /\ cout[1].ok
    /\ ndispatched >= 2
    /\ client.player_options =
          [num_readouts |-> 2, virtual_losses |-> 1, seconds_per_move |-> 1]

\* C18: the reader pushes one entry for each line it read from the stream
\* and none for a read that failed at the end of the stream: the entries
\* pushed are as many as the lines read, and every entry in the queue is one
\* of those lines.
C18_OnePushPerLineRead ==
    /\ npushed = nread
    /\ \A i \in 1..Len(stdin_queue_) : stdin_queue_[i].seq <= nread

\* The tokens of a line at the point where HandleCmd takes the first of them
\* as the command name: the line without its id.
TokensAtNameRead(l) == IF HasCmdId(l) THEN Tail2(l) ELSE l

\* C19: every line HandleCmd does not answer as an empty line has a token
\* left for the command name when HandleCmd reads it, so HandleCmd returns a
\* Response for every line.
C19_CommandNameTokenExists ==
    /\ (ndispatched > 0 /\ last_line # <<>>) => TokensAtNameRead(last_line) # <<>>
    /\ main_pc # "aborted"

\* The loop is about to run an increment, and the read count is so high that
\* the bound MaxReadCount leaves no room for a single read more.
ReadCountAtBound ==
    /\ main_pc = "ponder"
    /\ MaybePonderBranch(client, now) = "ponder"
    /\ client.ponder_read_count_ + 1 > MaxReadCount

\* C20: once the reader thread has found the stream closed and has stopped,
\* Run returns, in every ponder mode and without a quit: the loop reads the
\* flag the reader cleared at its next test, after at most one more line,
\* one more increment or one more timed pop.  Only time-limited pondering,
\* which counts reads without a limit, can take the read count to the bound.
C20_RunReturnsAfterStreamClosed ==
    /\ [](reader_pc = "exited" => <>(main_pc = "done" \/ ReadCountAtBound))
    /\ [](ReadCountAtBound => client.ponder_type_ = "kTimeLimited")

\* The stream closed while time-limited pondering was under way, the reader
\* stopped, and Run returned without a quit and with the deadline not reached.
C20_Witness ==
    /\ reader_pc = "exited"
    /\ main_pc = "done"
    /\ ~QuitDispatched
    /\ client.ponder_type_ = "kTimeLimited"
    /\ client.ponder_read_count_ > 0
    /\ ~client.ponder_limit_reached_

====
